---- MODULE Spec2Model ----
(***************************************************************************)
(* Lael Hospital backend: the authentication/OTP workflow                  *)
(* (server/handler/auth, server/services/otp, server/services/jwt,         *)
(* server/middleware) and the dependency-injection container (server/di).  *)
(*                                                                         *)
(* Spec    : the HTTP handlers of the auth module, one request at a time.  *)
(* SpecOTP : the OTP service called by concurrent request goroutines.      *)
(* SpecGen : GenerateAndSendOTP in its two steps, with verifications.       *)
(* SpecReg : Register called by concurrent request goroutines.             *)
(* SpecPatient: LookupPatient and RegisterPatient by concurrent goroutines. *)
(* SpecBind: Register and RegisterFactory between the Resolve calls of one *)
(*           goroutine.                                                    *)
(* SpecDI  : Container.Resolve called by concurrent goroutines.            *)
(***************************************************************************)
EXTENDS Integers, Sequences, FiniteSets, TLC

(***************************************************************************)
(* Bounds of the model.  Time is counted in ticks of the wall clock; the   *)
(* three lifetimes are the configured durations in ticks.                  *)
(***************************************************************************)
MaxTime == 2
MaxOTPs == 2
MaxRetry == 1
MaxWrong == 2
MaxResolves == 3
MaxInstances == 2
OTPExpiration == 1
JWTExpiration == 1
RefreshExpiration == 2

Procs == {"g1", "g2"}
Emails == {"a@x"}
Mobiles == {"900"}
Passwords == {"pw1", "pw2"}
Codes == {"000001", "000002"}
OtpTypes == {"registration", "login", "forgot_password"}
Statuses == {"active", "inactive", "temporary_inactive"}

VARIABLES
    users,        \* lael_users: sequence of rows, id = index
    otps,         \* lael_otp: set of rows
    otpSeq,       \* lael_otp AUTO_INCREMENT
    now,          \* wall clock (time.Now(), NOW())
    issued,       \* claims of every token signed with the server's secret
    resp,         \* the last response written (handlers) or value returned (OTP service)
    pc,           \* per goroutine calling OTPSvc.VerifyOTP: its position
    loc,          \* per goroutine calling OTPSvc.VerifyOTP: its local variables
    validReturns, \* history: per OTP row, how many OTPSvc.VerifyOTP calls returned true on it
    usedCodes,    \* history: per (email, type), codes verified since the last generate
    regVerified,  \* history: users for whose email a registration OTP was verified
    undelivered,  \* history: OTP rows whose mail EmailSvc.SendOTP failed to send
    verifyCall,   \* history: the record read and the code given in the last VerifyOTP
    wrongAttempts \* history: per record, the verifications with a wrong code before expiry

authVars == <<users, otps, otpSeq, now, issued, resp, pc, loc, validReturns, usedCodes, regVerified, undelivered, verifyCall, wrongAttempts>>

VARIABLES
    services,     \* Container.services
    factories,    \* Container.factories
    resolving,    \* Container.resolving
    stack,        \* per goroutine: the Resolve frames it is in
    ret,          \* per goroutine: what its last top-level Resolve returned
    instSeq,      \* identity of the next constructed instance
    factoryCalls, \* history: per key, how often its factory was invoked
    first,        \* history: per key, the instance its first successful Resolve returned
    calls,        \* history: number of top-level Resolve calls made
    lastBind      \* history: per key, its last Register or RegisterFactory

diVars == <<services, factories, resolving, stack, ret, instSeq, factoryCalls, first, calls,
            lastBind>>

VARIABLES
    patients,     \* lael_patients: the rows, in the order of their AUTO_INCREMENT id
    opdSeq,       \* number of the next OPD id generateOPDID returns
    ppc,          \* per goroutine: where it is in RegisterPatient
    ploc,         \* per goroutine: the request and the CreatePatientParams it built
    presp,        \* the last response of the patient service
    lastNew       \* history: the last successful new-patient registration

patVars == <<patients, opdSeq, ppc, ploc, presp, lastNew>>

vars == <<authVars, diVars, patVars>>

(***************************************************************************)
(* Values                                                                  *)
(***************************************************************************)
NoToken == [Type |-> "none", UserID |-> 0, Email |-> "", IsAdmin |-> FALSE, exp |-> 0]
NoTokenString == [claims |-> NoToken, signed |-> FALSE]
NoOtp == [id |-> 0, email |-> "", otp |-> "", expiry |-> 0, is_validated |-> FALSE,
          otp_type |-> "", retry_count |-> 0, created_on |-> 0]
NoLoc == [email |-> "", otp |-> "", otp_type |-> "", rec |-> NoOtp,
          wasUsed |-> FALSE, stale |-> FALSE]
NoResp == [op |-> "none", code |-> "", case |-> "", reuse |-> FALSE, stale |-> FALSE,
           match |-> FALSE]

Respond(op, code, case) ==
    resp' = [op |-> op, code |-> code, case |-> case, reuse |-> FALSE, stale |-> FALSE,
             match |-> FALSE]

\* password.HashPassword / VerifyPassword (bcrypt)
HashPassword(password) == <<"bcrypt", password>>
VerifyPassword(hashedPassword, password) == hashedPassword = HashPassword(password)

\* users.sql GetUserByEmail / GetUserByID: the row's id, 0 for sql.ErrNoRows
GetUserByEmail(email) ==
    IF \E i \in 1..Len(users) : users[i].email = email
    THEN CHOOSE i \in 1..Len(users) : users[i].email = email
    ELSE 0

GetUserByID(id) == IF id \in 1..Len(users) THEN id ELSE 0

\* jwt.go GenerateAccessToken / GenerateRefreshToken: the signed claims
GenerateAccessToken(userID, email, isAdmin) ==
    [Type |-> "access", UserID |-> userID, Email |-> email, IsAdmin |-> isAdmin,
     exp |-> now + JWTExpiration]

GenerateRefreshToken(userID) ==
    [Type |-> "refresh", UserID |-> userID, Email |-> "", IsAdmin |-> FALSE,
     exp |-> now + RefreshExpiration]

\* jwt.go ValidateToken: HMAC signature with the server's secret and exp
ValidateToken(tokenString) ==
    /\ tokenString.signed
    /\ now < tokenString.claims.exp

\* Token strings a client can present: the ones the server signed, and a forgery.
ForgedClaims ==
    { [Type |-> "access", UserID |-> 1, Email |-> "a@x", IsAdmin |-> TRUE, exp |-> MaxTime + 2] }

TokenStrings ==
    {[claims |-> t, signed |-> TRUE] : t \in issued}
        \cup {[claims |-> t, signed |-> FALSE] : t \in ForgedClaims}

\* What a token string is, whatever the handler makes of it.
TokenCase(tokenString) ==
    IF ~tokenString.signed THEN "forged"
    ELSE IF ~(now < tokenString.claims.exp) THEN "expired"
    ELSE tokenString.claims.Type

\* patients.sql GetLatestOTPByEmail: the rows the query may return
\* (ORDER BY created_on DESC LIMIT 1; created_on has the clock's resolution)
GetLatestOTPByEmail(email, otpType) ==
    LET c == {r \in otps : r.email = email /\ r.otp_type = otpType /\ ~r.is_validated}
    IN {r \in c : \A s \in c : s.created_on <= r.created_on}

\* patients.sql ValidateOTP / IncrementRetryCount: UPDATE ... WHERE id = ?
ValidateOTP(id) ==
    {IF r.id = id THEN [r EXCEPT !.is_validated = TRUE] ELSE r : r \in otps}

IncrementRetryCount(id) ==
    {IF r.id = id THEN [r EXCEPT !.retry_count = r.retry_count + 1] ELSE r : r \in otps}

\* patients.sql DeleteExpiredOTP
\* the statement with expiry <= NOW()
DeleteExpiredOTPInclusive == {r \in otps : ~(r.expiry <= now)}

DeleteExpiredOTP == {r \in otps : ~(r.expiry < now)}

(***************************************************************************)
(* OTP service (server/services/otp)                                       *)
(***************************************************************************)
\* OTPSvc.GenerateAndSendOTP: CreateOTP, then EmailSvc.SendOTP.  The row is
\* stored whether or not the mail goes out.
GenerateAndSendOTP(email, otpType, code) ==
    /\ otpSeq <= MaxOTPs
    /\ otps' = otps \cup {[id |-> otpSeq, email |-> email, otp |-> code,
                          expiry |-> now + OTPExpiration, is_validated |-> FALSE,
                          otp_type |-> otpType, retry_count |-> 0, created_on |-> now]}
    /\ otpSeq' = otpSeq + 1

\* VerifyOTP comparing the code before it looks at the expiry
OTPOutcomeCodeFirst(r, otp) ==
    IF r.otp # otp THEN "mismatch"
    ELSE IF now > r.expiry THEN "expired"
    ELSE "valid"

\* OTPSvc.VerifyOTP on the row r it read: what it answers ...
\* the checks with a lock after the first wrong code
OTPOutcomeLockout(r, otp) ==
    IF now > r.expiry \/ r.retry_count >= 1 THEN "expired"
    ELSE IF r.otp # otp THEN "mismatch"
    ELSE "valid"

OTPOutcome(r, otp) ==
    IF now > r.expiry THEN "expired"
    ELSE IF r.otp # otp THEN "mismatch"
    ELSE "valid"

\* ... and what it writes
OTPWrite(r, otp) ==
    IF OTPOutcome(r, otp) = "mismatch" THEN IncrementRetryCount(r.id)
    ELSE IF OTPOutcome(r, otp) = "valid" THEN ValidateOTP(r.id)
    ELSE otps

\* OTPSvc.CleanupExpiredOTPs
CleanupExpiredOTPs ==
    /\ otps' = DeleteExpiredOTP
    /\ otps' # otps
    /\ UNCHANGED <<users, otpSeq, now, issued, resp, pc, loc, validReturns, usedCodes, regVerified, undelivered, verifyCall, wrongAttempts>>

Tick ==
    /\ now < MaxTime
    /\ now' = now + 1
    /\ UNCHANGED <<users, otps, otpSeq, issued, resp, pc, loc, validReturns, usedCodes, regVerified, undelivered, verifyCall, wrongAttempts>>

(***************************************************************************)
(* Handlers (server/handler/auth/api/auth.go), one request at a time       *)
(***************************************************************************)
Register(email, mobile, password, code, sendOk) ==
    /\ IF GetUserByEmail(email) > 0
       THEN /\ Respond("Register", "3001", "exists")
            /\ UNCHANGED <<users, otps, otpSeq>>
       ELSE IF \E i \in 1..Len(users) : users[i].mobile = mobile
       THEN \* CreateUser fails on UNIQUE KEY mobile
            /\ Respond("Register", "1004", "duplicate_mobile")
            /\ UNCHANGED <<users, otps, otpSeq>>
       ELSE /\ users' = Append(users,
                          [email |-> email, mobile |-> mobile, is_admin |-> FALSE,
                           is_approved |-> FALSE, status |-> "active",
                           password_hash |-> [Valid |-> TRUE, String |-> HashPassword(password)],
                           last_login_at |-> [Valid |-> FALSE, Time |-> 0]])
            /\ GenerateAndSendOTP(email, "registration", code)
            /\ IF sendOk THEN Respond("Register", "200", "created")
                         ELSE Respond("Register", "1004", "send_failed")
    /\ UNCHANGED <<now, issued, pc, loc, validReturns, usedCodes, regVerified, undelivered, verifyCall, wrongAttempts>>

\* VerifyOTP generating the tokens before it looks at the result of OTPSvc.VerifyOTP
VerifyOTPTokensFirst(email, otp, otpType) ==
    /\ IF GetLatestOTPByEmail(email, otpType) = {}
       THEN /\ Respond("VerifyOTP", "2002", "not_found")
            /\ UNCHANGED <<otps, issued>>
       ELSE \E r \in GetLatestOTPByEmail(email, otpType) :
            /\ (OTPOutcome(r, otp) = "mismatch") => (r.retry_count < MaxRetry)
            /\ otps' = OTPWrite(r, otp)
            /\ IF GetUserByEmail(email) = 0
               THEN UNCHANGED issued
               ELSE LET id == GetUserByEmail(email)
                    IN issued' = issued \cup
                            {GenerateAccessToken(id, users[id].email, users[id].is_admin),
                             GenerateRefreshToken(id)}
            /\ IF OTPOutcome(r, otp) # "valid"
               THEN Respond("VerifyOTP", "2002", OTPOutcome(r, otp))
               ELSE IF GetUserByEmail(email) = 0
               THEN Respond("VerifyOTP", "3000", "valid")
               ELSE Respond("VerifyOTP", "200", "valid")
    /\ regVerified' = IF /\ resp'.code = "200"
                         /\ otpType = "registration"
                      THEN regVerified \cup {GetUserByEmail(email)}
                      ELSE regVerified
    /\ UNCHANGED <<users, otpSeq, now, pc, loc, validReturns, usedCodes, undelivered, verifyCall, wrongAttempts>>

VerifyOTP(email, otp, otpType) ==
    /\ IF GetLatestOTPByEmail(email, otpType) = {}
       THEN /\ Respond("VerifyOTP", "2002", "not_found")
            /\ UNCHANGED <<otps, issued>>
       ELSE \E r \in GetLatestOTPByEmail(email, otpType) :
            /\ (OTPOutcome(r, otp) = "mismatch") => (r.retry_count < MaxRetry)
            /\ otps' = OTPWrite(r, otp)
            /\ IF OTPOutcome(r, otp) # "valid"
               THEN /\ Respond("VerifyOTP", "2002", OTPOutcome(r, otp))
                    /\ UNCHANGED issued
               ELSE IF GetUserByEmail(email) = 0
               THEN /\ Respond("VerifyOTP", "3000", "valid")
                    /\ UNCHANGED issued
               ELSE LET id == GetUserByEmail(email)
                    IN /\ issued' = issued \cup
                            {GenerateAccessToken(id, users[id].email, users[id].is_admin),
                             GenerateRefreshToken(id)}
                       /\ Respond("VerifyOTP", "200", "valid")
    /\ regVerified' = IF /\ resp'.code = "200"
                         /\ otpType = "registration"
                      THEN regVerified \cup {GetUserByEmail(email)}
                      ELSE regVerified
    /\ UNCHANGED <<users, otpSeq, now, pc, loc, validReturns, usedCodes, undelivered, verifyCall, wrongAttempts>>

Login(email, password, code, sendOk) ==
    /\ LET id == GetUserByEmail(email)
           pwCase == IF id = 0 THEN "no_user"
                     ELSE IF /\ users[id].password_hash.Valid
                             /\ VerifyPassword(users[id].password_hash.String, password)
                          THEN "correct_password" ELSE "wrong_password"
       IN IF id = 0
          THEN /\ Respond("Login", "2000", pwCase)
               /\ UNCHANGED <<otps, otpSeq>>
          ELSE IF ~users[id].is_approved
          THEN /\ Respond("Login", "2005", pwCase)
               /\ UNCHANGED <<otps, otpSeq>>
          ELSE IF ~users[id].password_hash.Valid
          THEN /\ Respond("Login", "2000", pwCase)
               /\ UNCHANGED <<otps, otpSeq>>
          ELSE IF ~VerifyPassword(users[id].password_hash.String, password)
          THEN /\ Respond("Login", "2000", pwCase)
               /\ UNCHANGED <<otps, otpSeq>>
          ELSE /\ GenerateAndSendOTP(email, "login", code)
               /\ Respond("Login", IF sendOk THEN "200" ELSE "1004", pwCase)
    /\ UNCHANGED <<users, now, issued, pc, loc, validReturns, usedCodes, regVerified, undelivered, verifyCall, wrongAttempts>>

ForgotPassword(email, code, sendOk) ==
    /\ IF GetUserByEmail(email) = 0
       THEN /\ Respond("ForgotPassword", "200", "no_user")
            /\ UNCHANGED <<otps, otpSeq>>
       ELSE /\ GenerateAndSendOTP(email, "forgot_password", code)
            /\ IF sendOk THEN Respond("ForgotPassword", "200", "sent")
                         ELSE Respond("ForgotPassword", "1004", "send_failed")
    /\ UNCHANGED <<users, now, issued, pc, loc, validReturns, usedCodes, regVerified, undelivered, verifyCall, wrongAttempts>>

\* ResetPassword verifying the code against the OTPs of another type
ResetPasswordWrongType(email, otp, newPassword) ==
    /\ IF GetLatestOTPByEmail(email, "registration") = {}
       THEN /\ Respond("ResetPassword", "2002", "not_found")
            /\ UNCHANGED <<otps, users>>
       ELSE \E r \in GetLatestOTPByEmail(email, "registration") :
            /\ (OTPOutcome(r, otp) = "mismatch") => (r.retry_count < MaxRetry)
            /\ otps' = OTPWrite(r, otp)
            /\ IF OTPOutcome(r, otp) # "valid"
               THEN /\ Respond("ResetPassword", "2002", OTPOutcome(r, otp))
                    /\ UNCHANGED users
               ELSE IF GetUserByEmail(email) = 0
               THEN /\ Respond("ResetPassword", "3000", "valid")
                    /\ UNCHANGED users
               ELSE /\ users' = [users EXCEPT ![GetUserByEmail(email)].password_hash =
                                   [Valid |-> TRUE, String |-> HashPassword(newPassword)]]
                    /\ Respond("ResetPassword", "200", "valid")
    /\ UNCHANGED <<otpSeq, now, issued, pc, loc, validReturns, usedCodes, regVerified, undelivered, verifyCall, wrongAttempts>>

ResetPassword(email, otp, newPassword) ==
    /\ IF GetLatestOTPByEmail(email, "forgot_password") = {}
       THEN /\ Respond("ResetPassword", "2002", "not_found")
            /\ UNCHANGED <<otps, users>>
       ELSE \E r \in GetLatestOTPByEmail(email, "forgot_password") :
            /\ (OTPOutcome(r, otp) = "mismatch") => (r.retry_count < MaxRetry)
            /\ otps' = OTPWrite(r, otp)
            /\ IF OTPOutcome(r, otp) # "valid"
               THEN /\ Respond("ResetPassword", "2002", OTPOutcome(r, otp))
                    /\ UNCHANGED users
               ELSE IF GetUserByEmail(email) = 0
               THEN /\ Respond("ResetPassword", "3000", "valid")
                    /\ UNCHANGED users
               ELSE /\ users' = [users EXCEPT ![GetUserByEmail(email)].password_hash =
                                   [Valid |-> TRUE, String |-> HashPassword(newPassword)]]
                    /\ Respond("ResetPassword", "200", "valid")
    /\ UNCHANGED <<otpSeq, now, issued, pc, loc, validReturns, usedCodes, regVerified, undelivered, verifyCall, wrongAttempts>>

\* RefreshToken without its check of claims.Type
RefreshTokenAnyType(tokenString) ==
    /\ LET claims == tokenString.claims
           case == TokenCase(tokenString)
       IN IF ~ValidateToken(tokenString)
          THEN /\ Respond("RefreshToken", "2003", case)
               /\ UNCHANGED issued
          ELSE IF GetUserByID(claims.UserID) = 0
          THEN /\ Respond("RefreshToken", "3000", case)
               /\ UNCHANGED issued
          ELSE LET id == GetUserByID(claims.UserID)
               IN /\ issued' = issued \cup
                       {GenerateAccessToken(id, users[id].email, users[id].is_admin),
                        GenerateRefreshToken(id)}
                  /\ Respond("RefreshToken", "200", case)
    /\ UNCHANGED <<users, otps, otpSeq, now, pc, loc, validReturns, usedCodes, regVerified, undelivered, verifyCall, wrongAttempts>>

\* RefreshToken copying email and is_admin from the presented token
RefreshTokenClaimsFromToken(tokenString) ==
    /\ LET claims == tokenString.claims
           case == TokenCase(tokenString)
       IN IF ~ValidateToken(tokenString)
          THEN /\ Respond("RefreshToken", "2003", case)
               /\ UNCHANGED issued
          ELSE IF claims.Type # "refresh"
          THEN /\ Respond("RefreshToken", "401", case)
               /\ UNCHANGED issued
          ELSE IF GetUserByID(claims.UserID) = 0
          THEN /\ Respond("RefreshToken", "3000", case)
               /\ UNCHANGED issued
          ELSE LET id == GetUserByID(claims.UserID)
               IN /\ issued' = issued \cup
                       {GenerateAccessToken(id, claims.Email, claims.IsAdmin),
                        GenerateRefreshToken(id)}
                  /\ Respond("RefreshToken", "200", case)
    /\ UNCHANGED <<users, otps, otpSeq, now, pc, loc, validReturns, usedCodes, regVerified, undelivered, verifyCall, wrongAttempts>>

RefreshToken(tokenString) ==
    /\ LET claims == tokenString.claims
           case == TokenCase(tokenString)
       IN IF ~ValidateToken(tokenString)
          THEN /\ Respond("RefreshToken", "2003", case)
               /\ UNCHANGED issued
          ELSE IF claims.Type # "refresh"
          THEN /\ Respond("RefreshToken", "401", case)
               /\ UNCHANGED issued
          ELSE IF GetUserByID(claims.UserID) = 0
          THEN /\ Respond("RefreshToken", "3000", case)
               /\ UNCHANGED issued
          ELSE LET id == GetUserByID(claims.UserID)
               IN /\ issued' = issued \cup
                       {GenerateAccessToken(id, users[id].email, users[id].is_admin),
                        GenerateRefreshToken(id)}
                  /\ Respond("RefreshToken", "200", case)
    /\ UNCHANGED <<users, otps, otpSeq, now, pc, loc, validReturns, usedCodes, regVerified, undelivered, verifyCall, wrongAttempts>>

(***************************************************************************)
(* server/middleware/auth.go                                               *)
(***************************************************************************)
\* The Authorization headers a client can send, split at blanks.
Headers ==
    {[scheme |-> "", tok |-> NoTokenString], [scheme |-> "Basic", tok |-> NoTokenString]}
        \cup {[scheme |-> "Bearer", tok |-> t] : t \in TokenStrings}

\* "next": c.Next() with user_id, email and is_admin attached to the context
AuthMiddleware(header) ==
    /\ IF header.scheme = ""
       THEN Respond("AuthMiddleware", "401 Authorization header required", "no_header")
       ELSE IF header.scheme # "Bearer"
       THEN Respond("AuthMiddleware", "401 Invalid authorization format", "bad_format")
       ELSE IF ~ValidateToken(header.tok)
       THEN Respond("AuthMiddleware", "401 Invalid or expired token", TokenCase(header.tok))
       ELSE IF header.tok.claims.Type # "access"
       THEN Respond("AuthMiddleware", "401 Access token required", TokenCase(header.tok))
       ELSE Respond("AuthMiddleware", "next", TokenCase(header.tok))
    /\ UNCHANGED <<users, otps, otpSeq, now, issued, pc, loc, validReturns, usedCodes, regVerified, undelivered, verifyCall, wrongAttempts>>

\* users.sql ApproveStaff, run by an administrator
ApproveStaff(id) ==
    /\ id \in 1..Len(users)
    /\ ~users[id].is_approved
    /\ users' = [users EXCEPT ![id].is_approved = TRUE]
    /\ UNCHANGED <<otps, otpSeq, now, issued, resp, pc, loc, validReturns, usedCodes, regVerified, undelivered, verifyCall, wrongAttempts>>

\* users.sql UpdateUserStatus, run by an administrator
UpdateUserStatus(id, status) ==
    /\ id \in 1..Len(users)
    /\ users[id].status # status
    /\ users' = [users EXCEPT ![id].status = status]
    /\ UNCHANGED <<otps, otpSeq, now, issued, resp, pc, loc, validReturns, usedCodes, regVerified, undelivered, verifyCall, wrongAttempts>>

InitAuth ==
    /\ users = <<>>
    /\ otps = {}
    /\ otpSeq = 1
    /\ now = 0
    /\ issued = {}
    /\ resp = NoResp
    /\ pc = [p \in Procs |-> "idle"]
    /\ loc = [p \in Procs |-> NoLoc]
    /\ validReturns = [i \in 1..MaxOTPs |-> 0]
    /\ usedCodes = [k \in Emails \X OtpTypes |-> {}]
    /\ regVerified = {}
    /\ undelivered = {}
    /\ verifyCall = [rec |-> NoOtp, otp |-> ""]
    /\ wrongAttempts = [i \in 1..MaxOTPs |-> 0]

NextAuth ==
    \/ \E email \in Emails, mobile \in Mobiles, password \in Passwords,
          code \in Codes, sendOk \in BOOLEAN :
            Register(email, mobile, password, code, sendOk) /\ UNCHANGED <<diVars, patVars>>
    \/ \E email \in Emails, otp \in Codes, otpType \in OtpTypes :
            VerifyOTP(email, otp, otpType) /\ UNCHANGED <<diVars, patVars>>
    \/ \E email \in Emails, password \in Passwords, code \in Codes, sendOk \in BOOLEAN :
            Login(email, password, code, sendOk) /\ UNCHANGED <<diVars, patVars>>
    \/ \E email \in Emails, code \in Codes, sendOk \in BOOLEAN :
            ForgotPassword(email, code, sendOk) /\ UNCHANGED <<diVars, patVars>>
    \/ \E email \in Emails, otp \in Codes, newPassword \in Passwords :
            ResetPassword(email, otp, newPassword) /\ UNCHANGED <<diVars, patVars>>
    \/ \E t \in TokenStrings : RefreshToken(t) /\ UNCHANGED <<diVars, patVars>>
    \/ \E h \in Headers : AuthMiddleware(h) /\ UNCHANGED <<diVars, patVars>>
    \/ \E id \in 1..Len(users) : ApproveStaff(id) /\ UNCHANGED <<diVars, patVars>>
    \/ \E id \in 1..Len(users), status \in Statuses :
            UpdateUserStatus(id, status) /\ UNCHANGED <<diVars, patVars>>
    \/ CleanupExpiredOTPs /\ UNCHANGED <<diVars, patVars>>
    \/ Tick /\ UNCHANGED <<diVars, patVars>>

(***************************************************************************)
(* The OTP service called by concurrent goroutines: OTPSvc.VerifyOTP is    *)
(* two database statements, a read and a write, and other calls run        *)
(* between them.                                                           *)
(***************************************************************************)
OTPSvcGenerateAndSendOTP(email, otpType, code, sendOk) ==
    /\ GenerateAndSendOTP(email, otpType, code)
    /\ resp' = [NoResp EXCEPT !.op = "GenerateAndSendOTP",
                              !.code = IF sendOk THEN "nil" ELSE "error"]
    /\ usedCodes' = [usedCodes EXCEPT ![<<email, otpType>>] = {}]
    /\ loc' = [q \in Procs |->
                 IF loc[q].email = email /\ loc[q].otp_type = otpType
                 THEN [loc[q] EXCEPT !.wasUsed = FALSE] ELSE loc[q]]
    /\ UNCHANGED <<users, now, issued, pc, validReturns, regVerified, undelivered, verifyCall, wrongAttempts>>

\* Calls that have read row id and not yet written.
PendingOn(id) == Cardinality({q \in Procs : pc[q] = "read" /\ loc[q].rec.id = id})

\* GetLatestOTPByEmail; sql.ErrNoRows returns (false, nil) at once
OTPSvcVerifyOTPRead(p, email, otp, otpType) ==
    /\ pc[p] = "idle"
    /\ IF GetLatestOTPByEmail(email, otpType) = {}
       THEN /\ resp' = [NoResp EXCEPT !.op = "VerifyOTP", !.code = "false",
                                      !.case = "not_found"]
            /\ UNCHANGED <<pc, loc>>
       ELSE \E r \in GetLatestOTPByEmail(email, otpType) :
            /\ (r.otp # otp) => (r.retry_count + PendingOn(r.id) < MaxRetry)
            /\ loc' = [loc EXCEPT ![p] =
                        [email |-> email, otp |-> otp, otp_type |-> otpType, rec |-> r,
                         wasUsed |-> otp \in usedCodes[<<email, otpType>>],
                         stale |-> \E s \in otps : /\ s.email = email
                                                   /\ s.otp_type = otpType
                                                   /\ s.id > r.id
                                                   /\ s.otp # r.otp]]
            /\ pc' = [pc EXCEPT ![p] = "read"]
            /\ UNCHANGED resp
    /\ UNCHANGED <<users, otps, otpSeq, now, issued, validReturns, usedCodes, regVerified, undelivered, verifyCall, wrongAttempts>>

\* the expiry and code checks, IncrementRetryCount or ValidateOTP, return
OTPSvcVerifyOTPWrite(p) ==
    /\ pc[p] = "read"
    /\ LET l == loc[p]
           outcome == OTPOutcome(l.rec, l.otp)
       IN /\ otps' = OTPWrite(l.rec, l.otp)
          /\ resp' = [op |-> "VerifyOTP", case |-> outcome,
                      code |-> IF outcome = "valid" THEN "true" ELSE "false",
                      reuse |-> outcome = "valid" /\ l.wasUsed,
                      stale |-> outcome = "valid" /\ l.stale,
                      match |-> l.rec.otp = l.otp]
          /\ validReturns' = IF outcome = "valid"
                             THEN [validReturns EXCEPT ![l.rec.id] = @ + 1]
                             ELSE validReturns
          /\ usedCodes' = IF outcome = "valid"
                          THEN [usedCodes EXCEPT ![<<l.email, l.otp_type>>] = @ \cup {l.otp}]
                          ELSE usedCodes
    /\ pc' = [pc EXCEPT ![p] = "idle"]
    /\ loc' = [loc EXCEPT ![p] = NoLoc]
    /\ UNCHANGED <<users, otpSeq, now, issued, regVerified, undelivered, verifyCall, wrongAttempts>>

NextOTP ==
    \/ \E email \in Emails, otpType \in OtpTypes, code \in Codes, sendOk \in BOOLEAN :
            OTPSvcGenerateAndSendOTP(email, otpType, code, sendOk) /\ UNCHANGED <<diVars, patVars>>
    \/ \E p \in Procs, email \in Emails, otp \in Codes, otpType \in OtpTypes :
            OTPSvcVerifyOTPRead(p, email, otp, otpType) /\ UNCHANGED <<diVars, patVars>>
    \/ \E p \in Procs : OTPSvcVerifyOTPWrite(p) /\ UNCHANGED <<diVars, patVars>>
    \/ CleanupExpiredOTPs /\ UNCHANGED <<diVars, patVars>>
    \/ Tick /\ UNCHANGED <<diVars, patVars>>

(***************************************************************************)
(* OTPSvc.GenerateAndSendOTP in its two steps, CreateOTP and               *)
(* EmailSvc.SendOTP, with verifications in between (SpecGen)               *)
(***************************************************************************)
\* generateOTP, expiry := time.Now().Add(OTPExpiration), CreateOTP
GenCreateOTP(p, email, otpType, code) ==
    /\ pc[p] = "idle"
    /\ GenerateAndSendOTP(email, otpType, code)
    /\ pc' = [pc EXCEPT ![p] = "send"]
    /\ loc' = [loc EXCEPT ![p] = [email |-> email, otp_type |-> otpType, id |-> otpSeq]]
    /\ UNCHANGED <<users, now, issued, resp, validReturns, usedCodes, regVerified,
                   undelivered, verifyCall, wrongAttempts>>

\* SendOTP dropping the stored row when the mail cannot be sent
GenSendOTPRollback(p, sendOk) ==
    /\ pc[p] = "send"
    /\ resp' = [NoResp EXCEPT !.op = "GenerateAndSendOTP",
                              !.code = IF sendOk THEN "nil" ELSE "error"]
    /\ undelivered' = IF sendOk THEN undelivered ELSE undelivered \cup {loc[p].id}
    /\ otps' = IF sendOk THEN otps ELSE {r \in otps : r.id # loc[p].id}
    /\ pc' = [pc EXCEPT ![p] = "idle"]
    /\ loc' = [loc EXCEPT ![p] = NoLoc]
    /\ UNCHANGED <<users, otpSeq, now, issued, validReturns, usedCodes, regVerified,
                   verifyCall, wrongAttempts>>

\* EmailSvc.SendOTP and the return: nil, or the error of the mail service
GenSendOTP(p, sendOk) ==
    /\ pc[p] = "send"
    /\ resp' = [NoResp EXCEPT !.op = "GenerateAndSendOTP",
                              !.code = IF sendOk THEN "nil" ELSE "error"]
    /\ undelivered' = IF sendOk THEN undelivered ELSE undelivered \cup {loc[p].id}
    /\ pc' = [pc EXCEPT ![p] = "idle"]
    /\ loc' = [loc EXCEPT ![p] = NoLoc]
    /\ UNCHANGED <<users, otps, otpSeq, now, issued, validReturns, usedCodes, regVerified,
                   verifyCall, wrongAttempts>>

\* OTPSvc.VerifyOTP, in one step
GenVerifyOTP(email, otp, otpType) ==
    /\ IF GetLatestOTPByEmail(email, otpType) = {}
       THEN /\ resp' = [NoResp EXCEPT !.op = "VerifyOTP", !.code = "false",
                                      !.case = "not_found"]
            /\ UNCHANGED <<otps, verifyCall, wrongAttempts>>
       ELSE \E r \in GetLatestOTPByEmail(email, otpType) :
            /\ (OTPOutcome(r, otp) = "mismatch") => (r.retry_count < MaxWrong)
            /\ otps' = OTPWrite(r, otp)
            /\ resp' = [NoResp EXCEPT
                          !.op = "VerifyOTP", !.case = OTPOutcome(r, otp),
                          !.code = IF OTPOutcome(r, otp) = "valid" THEN "true" ELSE "false",
                          !.match = r.otp = otp]
            /\ verifyCall' = [rec |-> r, otp |-> otp]
            /\ wrongAttempts' = IF r.otp # otp /\ ~(now > r.expiry)
                                THEN [wrongAttempts EXCEPT ![r.id] = @ + 1]
                                ELSE wrongAttempts
    /\ UNCHANGED <<users, otpSeq, now, issued, pc, loc, validReturns, usedCodes,
                   regVerified, undelivered>>

NextGen ==
    \/ \E p \in Procs, email \in Emails, otpType \in OtpTypes, code \in Codes :
            GenCreateOTP(p, email, otpType, code) /\ UNCHANGED <<diVars, patVars>>
    \/ \E p \in Procs, sendOk \in BOOLEAN : GenSendOTP(p, sendOk) /\ UNCHANGED <<diVars, patVars>>
    \/ \E email \in Emails, otp \in Codes, otpType \in OtpTypes :
            GenVerifyOTP(email, otp, otpType) /\ UNCHANGED <<diVars, patVars>>
    \/ Tick /\ UNCHANGED <<diVars, patVars>>

(***************************************************************************)
(* Register run by concurrent request goroutines (SpecReg)                 *)
(***************************************************************************)
RegEmails == {"a@x", "b@x"}
RegMobiles == {"900", "901"}

\* GetUserByEmail: the pre-check; HashPassword
RegisterCheck(p, email, mobile, password) ==
    /\ pc[p] = "idle"
    /\ IF GetUserByEmail(email) > 0
       THEN /\ Respond("Register", "3001", "exists")
            /\ UNCHANGED <<pc, loc>>
       ELSE /\ pc' = [pc EXCEPT ![p] = "insert"]
            /\ loc' = [loc EXCEPT ![p] =
                        [email |-> email, mobile |-> mobile, password |-> password]]
            /\ UNCHANGED resp
    /\ UNCHANGED <<users, otps, otpSeq, now, issued, validReturns, usedCodes, regVerified, undelivered, verifyCall, wrongAttempts>>

\* CreateUser, which fails on UNIQUE KEY email and UNIQUE KEY mobile, then
\* GenerateAndSendOTP
RegisterInsert(p, code, sendOk) ==
    /\ pc[p] = "insert"
    /\ LET l == loc[p]
       IN IF \E i \in 1..Len(users) : users[i].email = l.email
          THEN /\ Respond("Register", "1004", "duplicate_email")
               /\ UNCHANGED <<users, otps, otpSeq>>
          ELSE IF \E i \in 1..Len(users) : users[i].mobile = l.mobile
          THEN /\ Respond("Register", "1004", "duplicate_mobile")
               /\ UNCHANGED <<users, otps, otpSeq>>
          ELSE /\ users' = Append(users,
                          [email |-> l.email, mobile |-> l.mobile, is_admin |-> FALSE,
                           is_approved |-> FALSE, status |-> "active",
                           password_hash |-> [Valid |-> TRUE,
                                              String |-> HashPassword(l.password)],
                           last_login_at |-> [Valid |-> FALSE, Time |-> 0]])
               /\ GenerateAndSendOTP(l.email, "registration", code)
               /\ IF sendOk THEN Respond("Register", "200", "created")
                            ELSE Respond("Register", "1004", "send_failed")
    /\ pc' = [pc EXCEPT ![p] = "idle"]
    /\ loc' = [loc EXCEPT ![p] = NoLoc]
    /\ UNCHANGED <<now, issued, validReturns, usedCodes, regVerified, undelivered, verifyCall, wrongAttempts>>

NextReg ==
    \/ \E p \in Procs, email \in RegEmails, mobile \in RegMobiles, password \in Passwords :
            RegisterCheck(p, email, mobile, password) /\ UNCHANGED <<diVars, patVars>>
    \/ \E p \in Procs, code \in Codes, sendOk \in BOOLEAN :
            RegisterInsert(p, code, sendOk) /\ UNCHANGED <<diVars, patVars>>

(***************************************************************************)
(* Dependency-injection container (server/di/container.go)                 *)
(***************************************************************************)
Keys == {"A", "B", "C"}

\* How a factory treats a nil from c.Resolve: "assert" is the unchecked type
\* assertion c.Resolve(x).(T), which panics on nil; "propagate" returns nil
\* from the factory; "ignore" builds the instance around the nil.
OnNil == {"assert", "propagate", "ignore"}

NoFactory == [bound |-> FALSE, deps |-> <<>>, onNil |-> ""]

\* the dependency lists of the factories a Configure registers
Wirings ==
    { [A |-> <<TRUE, <<"B", "C">>>>, B |-> <<TRUE, <<"C">>>>, C |-> <<TRUE, <<>>>>],
      [A |-> <<TRUE, <<"B">>>>, B |-> <<TRUE, <<"A">>>>, C |-> <<FALSE, <<>>>>],
      [A |-> <<TRUE, <<"B">>>>, B |-> <<TRUE, <<"C">>>>, C |-> <<TRUE, <<"A">>>>],
      [A |-> <<TRUE, <<"B">>>>, B |-> <<FALSE, <<>>>>, C |-> <<TRUE, <<>>>>] }

NoBind == [kind |-> "none", val |-> 0]

NoRet == [key |-> "", kind |-> "none", val |-> 0, circ |-> FALSE, unreg |-> FALSE]

NewFrame(t) == [t |-> t, pc |-> "load", i |-> 0, val |-> 0, panic |-> FALSE,
                circ |-> FALSE, unreg |-> FALSE]

\* NewContainer
InitDI ==
    /\ services = [k \in Keys |-> 0]
    /\ factories = [k \in Keys |-> NoFactory]
    /\ resolving = {}
    /\ stack = [g \in Procs |-> <<>>]
    /\ ret = [g \in Procs |-> NoRet]
    /\ instSeq = 1
    /\ factoryCalls = [k \in Keys |-> 0]
    /\ first = [k \in Keys |-> 0]
    /\ calls = 0
    /\ lastBind = [k \in Keys |-> NoBind]

\* an unrecovered panic has ended the process
Crashed == \E g \in Procs : ret[g].kind = "panic"

Top(g) == stack[g][Len(stack[g])]

SetTop(g, f) == stack' = [stack EXCEPT ![g] = [@ EXCEPT ![Len(@)] = f]]

\* Module.Configure: RegisterFactory for every factory of the module, before
\* anything is resolved
Configure(w, onNil) ==
    /\ calls = 0
    /\ \A k \in Keys : ~factories[k].bound
    /\ factories' = [k \in Keys |->
                        IF w[k][1]
                        THEN [bound |-> TRUE, deps |-> w[k][2], onNil |-> onNil]
                        ELSE NoFactory]
    /\ lastBind' = [k \in Keys |->
                        IF w[k][1] THEN [kind |-> "factory", val |-> instSeq] ELSE NoBind]
    /\ UNCHANGED <<services, resolving, stack, ret, instSeq, factoryCalls, first, calls>>

\* The top frame of g returns v to its caller: to the goroutine when it is
\* the outermost Resolve, else to the factory that called it, which goes on
\* to its next dependency, or gives up on a nil as its onNil says.
Return(g, v, panic, circ, unreg) ==
    LET s == stack[g]
        n == Len(s)
        t == s[n].t
    IN /\ first' = IF ~panic /\ v # 0 /\ first[t] = 0
                   THEN [first EXCEPT ![t] = v] ELSE first
       /\ IF n = 1
          THEN /\ stack' = [stack EXCEPT ![g] = <<>>]
               /\ ret' = [ret EXCEPT ![g] =
                            [key |-> t, val |-> v, circ |-> circ, unreg |-> unreg,
                             kind |-> IF panic THEN "panic"
                                      ELSE IF v = 0 THEN "nil" ELSE "ok"]]
          ELSE LET p == s[n - 1]
                   c == p.circ \/ circ
                   u == p.unreg \/ unreg
                   onNil == factories[p.t].onNil
                   q == IF panic \/ (v = 0 /\ onNil = "assert")
                        THEN [p EXCEPT !.pc = "unmark", !.val = 0,
                                       !.panic = TRUE, !.circ = c, !.unreg = u]
                        ELSE IF v = 0 /\ onNil = "propagate"
                        THEN [p EXCEPT !.pc = "unmark", !.val = 0, !.circ = c, !.unreg = u]
                        ELSE [p EXCEPT !.i = @ + 1, !.circ = c, !.unreg = u]
               IN /\ stack' = [stack EXCEPT ![g] = Append(SubSeq(s, 1, n - 2), q)]
                  /\ UNCHANGED ret

\* a goroutine calls c.Resolve(k)
Resolve(g, k) ==
    /\ ~Crashed
    /\ stack[g] = <<>>
    /\ calls < MaxResolves
    /\ \E j \in Keys : factories[j].bound \/ services[j] # 0
    /\ stack' = [stack EXCEPT ![g] = <<NewFrame(k)>>]
    /\ ret' = [ret EXCEPT ![g] = NoRet]
    /\ calls' = calls + 1
    /\ UNCHANGED <<services, factories, resolving, instSeq, factoryCalls, first, lastBind>>

\* c.services.Load(t)
ServicesLoad(g) ==
    /\ ~Crashed
    /\ stack[g] # <<>>
    /\ Top(g).pc = "load"
    /\ IF services[Top(g).t] # 0
       THEN Return(g, services[Top(g).t], FALSE, FALSE, FALSE)
       ELSE /\ SetTop(g, [Top(g) EXCEPT !.pc = "check"])
            /\ UNCHANGED <<ret, first>>
    /\ UNCHANGED <<services, factories, resolving, instSeq, factoryCalls, calls, lastBind>>

\* c.resolving.Load(t): "Circular dependency detected", return nil
ResolvingLoad(g) ==
    /\ ~Crashed
    /\ stack[g] # <<>>
    /\ Top(g).pc = "check"
    /\ IF Top(g).t \in resolving
       THEN Return(g, 0, FALSE, TRUE, FALSE)
       ELSE /\ SetTop(g, [Top(g) EXCEPT !.pc = "mark"])
            /\ UNCHANGED <<ret, first>>
    /\ UNCHANGED <<services, factories, resolving, instSeq, factoryCalls, calls, lastBind>>

\* c.resolving.Store(t, true); defer c.resolving.Delete(t)
ResolvingStore(g) ==
    /\ ~Crashed
    /\ stack[g] # <<>>
    /\ Top(g).pc = "mark"
    /\ resolving' = resolving \cup {Top(g).t}
    /\ SetTop(g, [Top(g) EXCEPT !.pc = "factory"])
    /\ UNCHANGED <<services, factories, ret, instSeq, factoryCalls, first, calls, lastBind>>

\* c.factories.Load(t): call the factory, or "not registered", return nil
FactoriesLoad(g) ==
    /\ ~Crashed
    /\ stack[g] # <<>>
    /\ Top(g).pc = "factory"
    /\ IF factories[Top(g).t].bound
       THEN /\ SetTop(g, [Top(g) EXCEPT !.pc = "deps", !.i = 1])
            /\ factoryCalls' = [factoryCalls EXCEPT ![Top(g).t] = @ + 1]
       ELSE /\ SetTop(g, [Top(g) EXCEPT !.pc = "unmark", !.val = 0, !.unreg = TRUE])
            /\ UNCHANGED factoryCalls
    /\ UNCHANGED <<services, factories, resolving, ret, instSeq, first, calls, lastBind>>

\* inside factoryFunc(c): resolve the next dependency, or construct
FactoryFunc(g) ==
    /\ ~Crashed
    /\ stack[g] # <<>>
    /\ Top(g).pc = "deps"
    /\ LET f == Top(g)
           deps == factories[f.t].deps
       IN IF f.i <= Len(deps)
          THEN /\ stack' = [stack EXCEPT ![g] = Append(@, NewFrame(deps[f.i]))]
               /\ UNCHANGED instSeq
          ELSE /\ SetTop(g, [f EXCEPT !.pc = "store", !.val = instSeq])
               /\ instSeq' = instSeq + 1
    /\ UNCHANGED <<services, factories, resolving, ret, factoryCalls, first, calls, lastBind>>

\* c.services.Store(t, service)
ServicesStore(g) ==
    /\ ~Crashed
    /\ stack[g] # <<>>
    /\ Top(g).pc = "store"
    /\ services' = [services EXCEPT ![Top(g).t] = Top(g).val]
    /\ SetTop(g, [Top(g) EXCEPT !.pc = "unmark"])
    /\ UNCHANGED <<factories, resolving, ret, instSeq, factoryCalls, first, calls, lastBind>>

\* c.resolving.Delete(t) placed after c.services.Store instead of deferred
ResolvingDeleteOnSuccess(g) ==
    /\ ~Crashed
    /\ stack[g] # <<>>
    /\ Top(g).pc = "unmark"
    /\ resolving' = IF Top(g).val # 0 THEN resolving \ {Top(g).t} ELSE resolving
    /\ Return(g, Top(g).val, Top(g).panic, Top(g).circ, Top(g).unreg)
    /\ UNCHANGED <<services, factories, instSeq, factoryCalls, calls, lastBind>>

\* the deferred c.resolving.Delete(t), then the return or the panic goes on
ResolvingDelete(g) ==
    /\ ~Crashed
    /\ stack[g] # <<>>
    /\ Top(g).pc = "unmark"
    /\ resolving' = resolving \ {Top(g).t}
    /\ Return(g, Top(g).val, Top(g).panic, Top(g).circ, Top(g).unreg)
    /\ UNCHANGED <<services, factories, instSeq, factoryCalls, calls, lastBind>>

(***************************************************************************)
(* services/patient: LookupPatient and RegisterPatient over lael_patients  *)
(* (SpecPatient)                                                           *)
(***************************************************************************)
MaxPatients == 3

Digits == {"0", "1", "2", "3", "4", "5", "6", "7", "8", "9"}

\* request mobiles: two of ten digits and one with a letter
Mobile9 == <<"9", "9", "9", "9", "9", "9", "9", "9", "9", "9">>
Mobile7 == <<"7", "7", "7", "7", "7", "7", "7", "7", "7", "7">>
PatMobiles == {Mobile9, Mobile7, <<"9", "9", "9", "9", "9", "9", "9", "9", "9", "x">>}

\* the ids generateOPDID returns, in the order it returns them
OpdIds == <<"LAEL1", "LAEL2">>

\* RegisterRequest.OpdId is a *string: <<>> is nil, <<s>> points to s
NewOpdIds == {<<>>, <<"">>}
RevisitOpdIds == {<<"LAEL1">>, <<"LAEL9">>}

PatNames == {"", "Asha"}
PatAges == {0, 150, 151}
PatSexes == {"", "male", "robot"}
PatAddresses ==
    { [Locality |-> "", City |-> "", State |-> "", Pincode |-> ""],
      [Locality |-> "Civil Lines", City |-> "", State |-> "", Pincode |-> "226001"] }

\* what a revisit request carries besides mobile and opd_id: nothing, a new
\* age only, or every field
RevisitData ==
    { [Name |-> "", Age |-> 0, Sex |-> "",
       Address |-> [Locality |-> "", City |-> "", State |-> "", Pincode |-> ""]],
      [Name |-> "", Age |-> 151, Sex |-> "",
       Address |-> [Locality |-> "", City |-> "", State |-> "", Pincode |-> ""]],
      [Name |-> "Ravi", Age |-> 30, Sex |-> "robot",
       Address |-> [Locality |-> "Gomti Nagar", City |-> "Lucknow", State |-> "UP",
                    Pincode |-> "226010"]] }

RegisterRequests ==
    [Mobile : PatMobiles, OpdId : NewOpdIds, Name : PatNames, Age : PatAges,
     Sex : PatSexes, Address : PatAddresses]
    \cup {[Mobile |-> m, OpdId |-> o, Name |-> d.Name, Age |-> d.Age, Sex |-> d.Sex,
           Address |-> d.Address] : m \in PatMobiles, o \in RevisitOpdIds, d \in RevisitData}

NullString == [Valid |-> FALSE, String |-> ""]

NoParams == [Name |-> "", Mobile |-> <<>>, OpdID |-> "", Age |-> 0, Sex |-> "",
             AddressLocality |-> NullString, AddressCity |-> NullString,
             AddressState |-> NullString, AddressPincode |-> NullString,
             VisitNumber |-> 0]

NoRequest == [Mobile |-> <<>>, OpdId |-> <<>>, Name |-> "", Age |-> 0, Sex |-> "",
              Address |-> [Locality |-> "", City |-> "", State |-> "", Pincode |-> ""]]

\* req: the request of a revisit; previousVisit: the id of the row
\* GetLatestVisitByOPDID returned, 0 for a new patient; params: the
\* CreatePatientParams
NoPLoc == [req |-> NoRequest, previousVisit |-> 0, params |-> NoParams]

NoPResp == [op |-> "none", code |-> "", mobile |-> <<>>, OpdId |-> "", VisitNumber |-> 0,
            ID |-> 0, Visits |-> <<>>]

NoNew == [mobile |-> <<>>, OpdId |-> "", earlier |-> FALSE]

\* validation.go
isValidMobile(mobile) ==
    /\ Len(mobile) = 10
    /\ \A i \in 1..Len(mobile) : mobile[i] \in Digits

\* a bound of 200 in place of 150
isValidAgeWide(age) == age >= 1 /\ age <= 200

isValidAge(age) == age >= 1 /\ age <= 150

isValidSex(sex) == sex \in {"male", "female", "other"}

validateNewPatient(req) ==
    ~(req.Mobile = <<>> \/ req.Name = "" \/ req.Age = 0 \/ req.Sex = "")

validateRevisitPatient(req) ==
    ~(req.Mobile = <<>> \/ req.OpdId = <<>> \/ req.OpdId = <<"">>)

\* opdid.go
generateOPDID == OpdIds[opdSeq]

\* sql.NullString of a request field: Valid only when the field is not empty
ToNullString(str) == IF str # "" THEN [Valid |-> TRUE, String |-> str] ELSE NullString

\* merge.go
mergePatientData(newData, previousData) ==
    [Mobile |-> previousData.mobile,
     OpdID |-> previousData.opd_id,
     VisitNumber |-> previousData.visit_number + 1,
     Name |-> IF newData.Name # "" THEN newData.Name ELSE previousData.name,
     Age |-> IF newData.Age > 0 THEN newData.Age ELSE previousData.age,
     Sex |-> IF newData.Sex # "" THEN newData.Sex ELSE previousData.sex,
     AddressLocality |-> IF newData.Address.Locality # ""
                         THEN [Valid |-> TRUE, String |-> newData.Address.Locality]
                         ELSE previousData.address_locality,
     AddressCity |-> IF newData.Address.City # ""
                     THEN [Valid |-> TRUE, String |-> newData.Address.City]
                     ELSE previousData.address_city,
     AddressState |-> IF newData.Address.State # ""
                      THEN [Valid |-> TRUE, String |-> newData.Address.State]
                      ELSE previousData.address_state,
     AddressPincode |-> IF newData.Address.Pincode # ""
                        THEN [Valid |-> TRUE, String |-> newData.Address.Pincode]
                        ELSE previousData.address_pincode]

\* the row INSERT INTO lael_patients stores for the params
PatientRow(id, params) ==
    [id |-> id, name |-> params.Name, mobile |-> params.Mobile, opd_id |-> params.OpdID,
     age |-> params.Age, sex |-> params.Sex,
     address_locality |-> params.AddressLocality, address_city |-> params.AddressCity,
     address_state |-> params.AddressState, address_pincode |-> params.AddressPincode,
     visit_number |-> params.VisitNumber]

PatientIds == 1..Len(patients)

\* lael_patients without the unique key on opd_id
DuplicateOpdIdNoKey(params) == FALSE

\* UNIQUE KEY `opd_id` (`opd_id`) of lael_patients
DuplicateOpdId(params) == \E i \in PatientIds : patients[i].opd_id = params.OpdID

\* patients.sql GetLatestVisitByOPDID: the rows the query may return first
GetLatestVisitByOPDID(opdId) ==
    {i \in PatientIds :
        /\ patients[i].opd_id = opdId
        /\ \A j \in PatientIds : patients[j].opd_id = opdId
                                    => patients[j].visit_number <= patients[i].visit_number}

\* patients.sql GetAllVisitsByMobile: the orders ORDER BY visit_number ASC allows
GetAllVisitsByMobile(mobile) ==
    LET ids == {i \in PatientIds : patients[i].mobile = mobile}
    IN {q \in [1..Cardinality(ids) -> ids] :
          /\ \A a, b \in 1..Cardinality(ids) : a # b => q[a] # q[b]
          /\ \A a, b \in 1..Cardinality(ids) :
                a < b => patients[q[a]].visit_number <= patients[q[b]].visit_number}

PatRespond(op, code) == presp' = [NoPResp EXCEPT !.op = op, !.code = code]

\* PatientSvc.LookupPatient
LookupPatient(mobile) ==
    /\ IF ~isValidMobile(mobile)
       THEN PatRespond("LookupPatient", "4003")
       ELSE \E visits \in GetAllVisitsByMobile(mobile) :
            IF Len(visits) = 0
            THEN PatRespond("LookupPatient", "4000")
            ELSE presp' = [NoPResp EXCEPT
                             !.op = "LookupPatient", !.code = "OK", !.mobile = mobile,
                             !.OpdId = patients[visits[1]].opd_id,
                             !.Visits = [i \in 1..Len(visits) |-> patients[visits[i]]],
                             !.VisitNumber = patients[visits[Len(visits)]].visit_number]
    /\ UNCHANGED <<patients, opdSeq, ppc, ploc, lastNew>>

\* PatientSvc.RegisterPatient up to the CreatePatientParams
RegisterPatientParams(p, req) ==
    /\ ppc[p] = "idle"
    /\ IF ~isValidMobile(req.Mobile)
       THEN /\ PatRespond("RegisterPatient", "4003")
            /\ UNCHANGED <<opdSeq, ppc, ploc>>
       ELSE IF req.OpdId = <<>> \/ req.OpdId = <<"">>
       THEN IF ~validateNewPatient(req)
            THEN /\ PatRespond("RegisterPatient", "4004")
                 /\ UNCHANGED <<opdSeq, ppc, ploc>>
            ELSE IF ~isValidAge(req.Age) \/ ~isValidSex(req.Sex)
            THEN /\ PatRespond("RegisterPatient", "4001")
                 /\ UNCHANGED <<opdSeq, ppc, ploc>>
            ELSE /\ opdSeq <= Len(OpdIds)
                 /\ opdSeq' = opdSeq + 1
                 /\ ploc' = [ploc EXCEPT ![p] =
                      [req |-> NoRequest, previousVisit |-> 0,
                       params |-> [Name |-> req.Name, Mobile |-> req.Mobile,
                                   OpdID |-> generateOPDID, Age |-> req.Age,
                                   Sex |-> req.Sex, VisitNumber |-> 1,
                                   AddressLocality |-> ToNullString(req.Address.Locality),
                                   AddressCity |-> ToNullString(req.Address.City),
                                   AddressState |-> ToNullString(req.Address.State),
                                   AddressPincode |-> ToNullString(req.Address.Pincode)]]]
                 /\ ppc' = [ppc EXCEPT ![p] = "create"]
                 /\ UNCHANGED presp
       ELSE IF ~validateRevisitPatient(req)
            THEN /\ PatRespond("RegisterPatient", "4004")
                 /\ UNCHANGED <<opdSeq, ppc, ploc>>
            ELSE IF GetLatestVisitByOPDID(req.OpdId[1]) = {}
            THEN /\ PatRespond("RegisterPatient", "4005")
                 /\ UNCHANGED <<opdSeq, ppc, ploc>>
            ELSE \E i \in GetLatestVisitByOPDID(req.OpdId[1]) :
                 IF patients[i].mobile # req.Mobile
                 THEN /\ PatRespond("RegisterPatient", "4005")
                      /\ UNCHANGED <<opdSeq, ppc, ploc>>
                 ELSE /\ ploc' = [ploc EXCEPT ![p] =
                            [req |-> req, previousVisit |-> i,
                             params |-> mergePatientData(req, patients[i])]]
                      /\ ppc' = [ppc EXCEPT ![p] = "create"]
                      /\ UNCHANGED <<opdSeq, presp>>
    /\ UNCHANGED <<patients, lastNew>>

\* s.Persistence.CreatePatient and the response
RegisterPatientCreate(p) ==
    /\ ppc[p] = "create"
    /\ LET params == ploc[p].params
       IN IF DuplicateOpdId(params)
          THEN /\ PatRespond("RegisterPatient", "1005")
               /\ UNCHANGED <<patients, lastNew>>
          ELSE /\ Len(patients) < MaxPatients
               /\ patients' = Append(patients, PatientRow(Len(patients) + 1, params))
               /\ presp' = [NoPResp EXCEPT
                              !.op = "RegisterPatient", !.code = "OK",
                              !.mobile = params.Mobile,
                              !.ID = Len(patients) + 1, !.OpdId = params.OpdID,
                              !.VisitNumber = params.VisitNumber]
               /\ lastNew' = IF ploc[p].previousVisit # 0 THEN lastNew
                             ELSE [mobile |-> params.Mobile, OpdId |-> params.OpdID,
                                   earlier |-> \E i \in PatientIds :
                                                  patients[i].mobile = params.Mobile]
    /\ ppc' = [ppc EXCEPT ![p] = "idle"]
    /\ ploc' = [ploc EXCEPT ![p] = NoPLoc]
    /\ UNCHANGED opdSeq

InitPatient ==
    /\ patients = <<>>
    /\ opdSeq = 1
    /\ ppc = [p \in Procs |-> "idle"]
    /\ ploc = [p \in Procs |-> NoPLoc]
    /\ presp = NoPResp
    /\ lastNew = NoNew

NextPatient ==
    \/ \E mobile \in PatMobiles : LookupPatient(mobile) /\ UNCHANGED <<authVars, diVars>>
    \/ \E p \in Procs, req \in RegisterRequests :
            RegisterPatientParams(p, req) /\ UNCHANGED <<authVars, diVars>>
    \/ \E p \in Procs : RegisterPatientCreate(p) /\ UNCHANGED <<authVars, diVars>>

(***************************************************************************)
(* Register and RegisterFactory between the Resolve calls of one goroutine  *)
(* (SpecBind)                                                              *)
(***************************************************************************)
BindProcs == {"g1"}

BindKeys == {"A", "B"}

\* the dependency lists of the factories given to RegisterFactory
BindDeps == {<<>>, <<"B">>}

\* c.Register(k, implementation), with an instance not seen before
ContainerRegister(k) ==
    /\ \A g \in Procs : stack[g] = <<>>
    /\ instSeq <= MaxInstances
    /\ services' = [services EXCEPT ![k] = instSeq]
    /\ instSeq' = instSeq + 1
    /\ lastBind' = [lastBind EXCEPT ![k] = [kind |-> "instance", val |-> instSeq]]
    /\ UNCHANGED <<factories, resolving, stack, ret, factoryCalls, first, calls>>

\* c.RegisterFactory(k, factory)
ContainerRegisterFactory(k, deps) ==
    /\ \A g \in Procs : stack[g] = <<>>
    /\ factories' = [factories EXCEPT
                       ![k] = [bound |-> TRUE, deps |-> deps, onNil |-> "ignore"]]
    /\ lastBind' = [lastBind EXCEPT ![k] = [kind |-> "factory", val |-> instSeq]]
    /\ UNCHANGED <<services, resolving, stack, ret, instSeq, factoryCalls, first, calls>>

NextBind ==
    \/ \E k \in BindKeys : ContainerRegister(k) /\ UNCHANGED <<authVars, patVars>>
    \/ \E k \in BindKeys, deps \in BindDeps :
            ContainerRegisterFactory(k, deps) /\ UNCHANGED <<authVars, patVars>>
    \/ \E g \in BindProcs, k \in BindKeys : Resolve(g, k) /\ UNCHANGED <<authVars, patVars>>
    \/ \E g \in BindProcs : ServicesLoad(g) /\ UNCHANGED <<authVars, patVars>>
    \/ \E g \in BindProcs : ResolvingLoad(g) /\ UNCHANGED <<authVars, patVars>>
    \/ \E g \in BindProcs : ResolvingStore(g) /\ UNCHANGED <<authVars, patVars>>
    \/ \E g \in BindProcs : FactoriesLoad(g) /\ UNCHANGED <<authVars, patVars>>
    \/ \E g \in BindProcs : FactoryFunc(g) /\ UNCHANGED <<authVars, patVars>>
    \/ \E g \in BindProcs : ServicesStore(g) /\ UNCHANGED <<authVars, patVars>>
    \/ \E g \in BindProcs : ResolvingDelete(g) /\ UNCHANGED <<authVars, patVars>>

NextDI ==
    \/ \E w \in Wirings, onNil \in OnNil : Configure(w, onNil) /\ UNCHANGED <<authVars, patVars>>
    \/ \E g \in Procs, k \in Keys : Resolve(g, k) /\ UNCHANGED <<authVars, patVars>>
    \/ \E g \in Procs : ServicesLoad(g) /\ UNCHANGED <<authVars, patVars>>
    \/ \E g \in Procs : ResolvingLoad(g) /\ UNCHANGED <<authVars, patVars>>
    \/ \E g \in Procs : ResolvingStore(g) /\ UNCHANGED <<authVars, patVars>>
    \/ \E g \in Procs : FactoriesLoad(g) /\ UNCHANGED <<authVars, patVars>>
    \/ \E g \in Procs : FactoryFunc(g) /\ UNCHANGED <<authVars, patVars>>
    \/ \E g \in Procs : ServicesStore(g) /\ UNCHANGED <<authVars, patVars>>
    \/ \E g \in Procs : ResolvingDelete(g) /\ UNCHANGED <<authVars, patVars>>

(***************************************************************************)
(* Properties of the handlers (Spec)                                       *)
(***************************************************************************)
\* C1: every token the server has signed belongs to a user who is an
\* administrator or is approved; none is issued for a non-admin user whose
\* is_approved flag is false.  (No handler ever clears is_approved.)
C1_NoTokenForUnapprovedUser ==
    \A t \in issued : users[t.UserID].is_admin \/ users[t.UserID].is_approved

\* C5: a validly signed, unexpired refresh token is turned away by
\* AuthMiddleware with "Access token required", and a validly signed,
\* unexpired access token is turned away by RefreshToken with the
\* unauthorized code; neither request is authenticated or answered with tokens.
C5_TokenTypeIsolation ==
    /\ (resp.op = "AuthMiddleware" /\ resp.case = "refresh")
            => resp.code = "401 Access token required"
    /\ (resp.op = "RefreshToken" /\ resp.case = "access")
            => resp.code = "401"

\* A live refresh token has just been presented to a protected route.
C5_Witness ==
    /\ resp.op = "AuthMiddleware"
    /\ resp.case = "refresh"
    /\ resp.code = "401 Access token required"
    /\ \E t \in issued : t.Type = "access" /\ now < t.exp

\* C6: Login answers an unknown identifier and a known identifier with a
\* wrong password with the same code, invalid credentials (2000).
C6_LoginGenericError ==
    (resp.op = "Login" /\ resp.case \in {"no_user", "wrong_password"})
        => resp.code = "2000"

\* C14: every step that signs a token signs it for a user whose status is
\* active at that moment, on the Login, VerifyOTP and RefreshToken paths.
C14_NoTokenForInactiveUser ==
    [][\A t \in issued' \ issued : users[t.UserID].status = "active"]_vars

\* C15: a user passes Login (the password is accepted and the login OTP
\* sent) and is given tokens only after a registration OTP for the user's
\* email has been verified.
C15_RegistrationOTPPrecedesLogin ==
    [][/\ (resp'.op = "Login" /\ resp'.code = "200")
            => \A r \in otps' \ otps : GetUserByEmail(r.email) \in regVerified
       /\ \A t \in issued' \ issued : t.UserID \in regVerified']_vars

\* C16: a Login that passes every check (existing user, approved, status
\* active, correct password) sets the user's last_login_at and signs an
\* access and a refresh token for the user in that same request.
C16_LoginUpdatesLastLoginAndIssuesTokens ==
    [][\A r \in otps' \ otps :
          (/\ resp'.op = "Login"
           /\ resp'.case = "correct_password"
           /\ resp'.code = "200"
           /\ users[GetUserByEmail(r.email)].status = "active")
              => LET id == GetUserByEmail(r.email)
                 IN /\ users'[id].last_login_at = [Valid |-> TRUE, Time |-> now]
                    /\ GenerateRefreshToken(id) \in issued'
                    /\ GenerateAccessToken(id, users[id].email, users[id].is_admin)
                            \in issued']_vars

\* C18: ForgotPassword gives an identifier that matches a user the same
\* response as one that matches none (200, "If the email exists, an OTP has
\* been sent."), whether or not the OTP could be stored and mailed.
C18_ForgotPasswordSameResponse ==
    resp.op = "ForgotPassword" => resp.code = "200"

\* C19: a password hash changes only in a ResetPassword request whose
\* verification found the submitted code on a live, unvalidated
\* forgot_password OTP of that user's email and validated it; a ResetPassword
\* answered invalid, expired or not found leaves the users unchanged.
C19_ResetOnlyAfterForgotPasswordOTP ==
    [][/\ \A i \in 1..Len(users) :
            users'[i].password_hash # users[i].password_hash
                => /\ resp'.op = "ResetPassword"
                   /\ resp'.case = "valid"
                   /\ \E r \in otps :
                        /\ r.email = users[i].email
                        /\ r.otp_type = "forgot_password"
                        /\ ~r.is_validated
                        /\ ~(now > r.expiry)
                        /\ [r EXCEPT !.is_validated = TRUE] \in otps'
       /\ (resp' # resp /\ resp'.op = "ResetPassword" /\ resp'.code # "200")
            => users' = users]_vars

\* A reset went through while an unvalidated code of another type was there.
C19_Witness ==
    /\ resp.op = "ResetPassword"
    /\ resp.code = "200"
    /\ \E r \in otps : r.otp_type = "forgot_password" /\ r.is_validated
    /\ \E r \in otps : r.otp_type = "registration" /\ ~r.is_validated

C13_ExpiredAndInvalidDiffer ==
    (resp.op \in {"VerifyOTP", "ResetPassword"} /\ resp.case = "expired")
        => resp.code # "2002"

\* C17: Register with an email or a mobile that an existing user holds is
\* answered with the already-exists error (3001), also when the pre-check
\* passed and the insert was rejected by a unique key.  (No user row is
\* created in these cases.)
C17_DuplicateIsAlreadyExists ==
    (resp.op = "Register"
        /\ resp.case \in {"exists", "duplicate_email", "duplicate_mobile"})
            => resp.code = "3001"

(***************************************************************************)
(* Properties of the OTP service (SpecOTP)                                 *)
(***************************************************************************)
\* C2: single use.  After VerifyOTP has returned valid for a code of an
\* (email, type) pair, no later VerifyOTP call with the same code for the
\* pair returns valid unless GenerateAndSendOTP ran for the pair in between,
\* whatever codes were generated for the pair earlier.
C2_SingleUse ==
    ~(resp.op = "VerifyOTP" /\ resp.code = "true" /\ resp.reuse)

\* C3: of the concurrent VerifyOTP calls that submit the correct code of one
\* OTP record, at most one returns valid.
C3_AtMostOneValidPerRecord ==
    \A i \in 1..MaxOTPs : validReturns[i] <= 1

\* C4: once a newer code has been generated for an (email, type) pair, a
\* VerifyOTP call that starts afterwards never returns valid on an older
\* record of the pair.
C4_OnlyLatestCodeVerifies ==
    ~(resp.op = "VerifyOTP" /\ resp.code = "true" /\ resp.stale)

\* C12: a VerifyOTP call that comes to its checks after the expiry of the
\* record it read takes the expired exit and returns false, whether or not
\* the submitted code equals the stored one, and writes nothing: neither
\* retry_count nor is_validated of the record changes.
C12_ExpiredLeavesRecordUnchanged ==
    [][\A p \in Procs :
          (pc[p] = "read" /\ pc'[p] = "idle" /\ now > loc[p].rec.expiry)
              => /\ resp'.op = "VerifyOTP"
                 /\ resp'.case = "expired"
                 /\ resp'.code = "false"
                 /\ otps' = otps]_vars

\* The correct code was submitted after the expiry; the record is untouched.
C12_Witness ==
    /\ resp.op = "VerifyOTP"
    /\ resp.case = "expired"
    /\ resp.match
    /\ \E r \in otps : now > r.expiry /\ r.retry_count = 0 /\ ~r.is_validated

(***************************************************************************)
(* Properties of the patient service (SpecPatient)                         *)
(***************************************************************************)
\* the ids of the rows of one opd_id
VisitsOf(opdId) == {i \in PatientIds : patients[i].opd_id = opdId}

C26_RevisitStoresMergedRow ==
    [][\A p \in Procs :
          (ppc[p] = "create" /\ ppc'[p] = "idle" /\ ploc[p].previousVisit # 0)
             => LET req == ploc[p].req
                    prev == patients[ploc[p].previousVisit]
                    row == patients'[Len(patients')]
                    Merged(new, old) == IF new # "" THEN new ELSE old.String
                IN /\ presp'.code = "OK"
                   /\ Len(patients') = Len(patients) + 1
                   /\ row.name = IF req.Name # "" THEN req.Name ELSE prev.name
                   /\ row.age = IF req.Age # 0 THEN req.Age ELSE prev.age
                   /\ row.sex = IF req.Sex # "" THEN req.Sex ELSE prev.sex
                   /\ row.address_locality.String =
                         Merged(req.Address.Locality, prev.address_locality)
                   /\ row.address_city.String = Merged(req.Address.City, prev.address_city)
                   /\ row.address_state.String = Merged(req.Address.State, prev.address_state)
                   /\ row.address_pincode.String =
                         Merged(req.Address.Pincode, prev.address_pincode)
                   /\ row.opd_id = prev.opd_id /\ row.mobile = prev.mobile
                   /\ row.visit_number = prev.visit_number + 1]_vars

\* C27: after a successful new-patient registration with mobile m that
\* returned opd_id o, LookupPatient(m) returns the visits in ascending order
\* of visit number, the new row with visit number 1 among them, and reports
\* o as the opd_id; when m had no rows before, that row is the only visit.
C27_LookupAfterNewPatient ==
    [][(/\ presp' # presp
        /\ presp'.op = "LookupPatient" /\ presp'.code = "OK"
        /\ presp'.mobile = lastNew.mobile)
          => LET visits == presp'.Visits
             IN /\ \A a, b \in 1..Len(visits) :
                      a < b => visits[a].visit_number <= visits[b].visit_number
                /\ \E a \in 1..Len(visits) : /\ visits[a].opd_id = lastNew.OpdId
                                              /\ visits[a].visit_number = 1
                /\ presp'.OpdId = lastNew.OpdId
                /\ ~lastNew.earlier => Len(visits) = 1]_vars

C21_PersistThenDispatch ==
    [][\A p \in Procs :
          /\ (pc[p] = "idle" /\ pc'[p] = "send")
                => \E r \in otps' :
                      /\ otps' = otps \cup {r}
                      /\ r.id = loc'[p].id /\ r \notin otps
                      /\ r.retry_count = 0 /\ ~r.is_validated
                      /\ r.expiry = now + OTPExpiration
          /\ (pc[p] = "send" /\ pc'[p] = "idle")
                => /\ \E r \in otps : r.id = loc[p].id
                   /\ otps' = otps
                   /\ (loc[p].id \in undelivered') => resp'.code = "error"]_vars

\* A record whose mail was never sent has just been verified with its code.
C21_Witness ==
    /\ resp.op = "VerifyOTP"
    /\ resp.code = "true"
    /\ \A r \in otps : r.is_validated => r.id \in undelivered
    /\ \E r \in otps : r.is_validated

\* C22: CleanupExpiredOTPs deletes exactly the records whose expiry is
\* before now; running it again at once deletes nothing more; and, whatever
\* generate and verify calls are interleaved with it, no record it deletes
\* is one that a verification made at that moment accepts as valid.
C22_CleanupDeletesOnlyExpired ==
    [][(\E r \in otps : \A s \in otps' : s.id # r.id)
          => /\ otps' = {r \in otps : ~(r.expiry < now)}
             /\ otps \ otps' = {r \in otps : r.expiry < now}
             /\ DeleteExpiredOTP' = otps'
             /\ \A r \in otps \ otps' : \A otp \in Codes : OTPOutcome(r, otp) # "valid"]_vars

\* A cleanup has deleted a record while a verification that read it is in
\* progress, and a record expiring exactly now has been kept.
C22_Witness ==
    /\ \E p \in Procs : /\ pc[p] = "read"
                        /\ \A s \in otps : s.id # loc[p].rec.id
    /\ \E r \in otps : r.expiry = now /\ OTPOutcome(r, r.otp) = "valid"

Deps(k) == {factories[k].deps[i] : i \in 1..Len(factories[k].deps)}

DepsOf(S) == S \cup UNION {Deps(k) : k \in S}

\* the keys k depends on, directly or through other factories
Reachable(k) == DepsOf(DepsOf(Deps(k)))

OnCycle(k) == k \in Reachable(k)

\* k is bound to a factory of an acyclic graph in which every key is bound
Acyclic(k) == \A j \in {k} \cup Reachable(k) : factories[j].bound /\ ~OnCycle(j)

\* C7: when the factories form a cycle through A, Resolve(A) comes back to
\* its caller with a failure (no instance) after the circular dependency was
\* detected; it does not crash.
C7_CycleIsAFailureNotACrash ==
    \A g \in Procs :
        (ret[g].kind # "none" /\ OnCycle(ret[g].key))
            => (ret[g].kind = "nil" /\ ret[g].circ)

\* C8: every Resolve call for a factory-bound key of an acyclic graph returns
\* a non-nil instance, also while other callers are resolving the same key.
C8_ConcurrentResolveReturnsInstance ==
    \A g \in Procs :
        (ret[g].kind # "none" /\ Acyclic(ret[g].key)) => ret[g].kind = "ok"

\* C9: the factory bound to a key is invoked at most once, under every
\* interleaving of the Resolve calls.
C9_FactoryInvokedAtMostOnce ==
    \A k \in Keys : factoryCalls[k] <= 1

\* C10: every Resolve call that returns an instance for a key returns the
\* instance that the first successful Resolve of the key returned.
C10_SameInstanceAsFirst ==
    \A g \in Procs :
        ret[g].kind = "ok" => ret[g].val = first[ret[g].key]

\* C11: a Resolve that fails because a key is not registered and one that
\* fails because of a circular dependency give their callers outcomes that
\* differ from each other, and neither ends the process when a module factory
\* resolves its dependencies.
C11_FailuresAreExplicitAndRecoverable ==
    /\ \A g \in Procs : (ret[g].circ \/ ret[g].unreg) => ret[g].kind # "panic"
    /\ \A g, h \in Procs :
            (/\ ret[g].kind = "nil" /\ ret[g].circ /\ ~ret[g].unreg
             /\ ret[h].kind = "nil" /\ ret[h].unreg /\ ~ret[h].circ)
                => ret[g].val # ret[h].val

\* C29: when no Resolve call is in progress the resolving set is empty, and
\* every key in it was marked by a call that is still in progress: each
\* exit of Resolve (instance, nil from the factory, not registered, circular,
\* panic in the factory) has removed the mark the call set, so no mark is
\* left behind for a later resolution of the key to take for a cycle.
C29_NoMarkOutlivesItsCall ==
    /\ (\A g \in Procs : stack[g] = <<>>) => resolving = {}
    /\ \A k \in resolving :
          \E g \in Procs : \E i \in 1..Len(stack[g]) :
              /\ stack[g][i].t = k
              /\ stack[g][i].pc \in {"factory", "deps", "store", "unmark"}

\* No call is in progress, one goroutine's resolution of a key has failed
\* and the other's resolution of the same key has returned an instance.
C29_Witness ==
    /\ \A g \in Procs : stack[g] = <<>>
    /\ resolving = {}
    /\ ret["g1"].kind = "nil"
    /\ ret["g2"].kind = "ok"
    /\ ret["g1"].key = ret["g2"].key

\* C24: Resolve(k) returns what the last binding call for k established:
\* the instance i after Register(k, i), and after RegisterFactory(k, f) an
\* instance made by f, that is one constructed after that call, whatever
\* was bound to k before and whether or not k had been resolved before.
C24_ResolveReturnsLastBinding ==
    [][\A g \in BindProcs :
          (stack[g] # <<>> /\ stack'[g] = <<>>)
             => LET k == ret'[g].key
                    b == lastBind[k]
                IN /\ (b.kind = "instance") => ret'[g].val = b.val
                   /\ (b.kind = "factory" /\ factories[k].deps = <<>>)
                         => ret'[g].kind = "ok" /\ ret'[g].val >= b.val]_vars

Init == InitAuth /\ InitDI /\ InitPatient

Next == NextAuth

Spec == Init /\ [][Next]_vars

SpecOTP == Init /\ [][NextOTP]_vars

SpecGen == Init /\ [][NextGen]_vars

SpecReg == Init /\ [][NextReg]_vars

SpecDI == Init /\ [][NextDI]_vars

SpecBind == Init /\ [][NextBind]_vars

SpecPatient == Init /\ [][NextPatient]_vars

====
